---- MODULE Spec2Model ----
(***************************************************************************)
(* A model of FlowCytometryTools/core/containers.py: FCMeasurement with    *)
(* its transform, subsample and gate methods, and FCCollection.transform.  *)
(*                                                                         *)
(* An event table (a pandas DataFrame) is a column list and a list of rows,*)
(* each row carrying its index label; tables live in buffers of a heap, and*)
(* a Measurement holds a buffer and the row positions of the buffer its    *)
(* table shows, so that a positional row slice (DataFrame.iloc[slice]) is a*)
(* window on the buffer it was cut from, as in pandas, while a selection by*)
(* labels or by a mask and a deep copy get a buffer of their own.          *)
(***************************************************************************)
EXTENDS Integers, Sequences, FiniteSets, TLC

VARIABLES heap, pool, born, last, py, coll

vars == <<heap, pool, born, last, py, coll>>

(***************************************************************************)
(* Bounds of the model.                                                    *)
(***************************************************************************)
MaxRows == 3      \* events of a freshly loaded table: 0..MaxRows
MaxPool == 3      \* Measurements alive at once in Spec
MaxTuple == 3     \* longest tuple key tried
Den == 2          \* fractions tried as float keys are n/Den

(***************************************************************************)
(* Python values.                                                          *)
(***************************************************************************)
NoneV == <<>>
Some(x) == <<x>>
IsNone(o) == o = <<>>

Min(a, b) == IF a < b THEN a ELSE b
Max(a, b) == IF a < b THEN b ELSE a

\* int(x) of the float x = a / b, b > 0: truncation towards zero
PyInt(a, b) == IF a >= 0 THEN a \div b ELSE -((-a) \div b)

\* the sequences of k distinct elements of S
Arrangements(S, k) ==
    {s \in [1..k -> S] : \A i, j \in 1..k : i # j => s[i] # s[j]}

RECURSIVE Flatten(_)
Flatten(ss) == IF ss = <<>> THEN <<>> ELSE Head(ss) \o Flatten(Tail(ss))

Range(s) == {s[i] : i \in DOMAIN s}

(***************************************************************************)
(* The keys of subsample: an int, a float n/Den, a tuple, a slice, or a    *)
(* value of another type.                                                  *)
(***************************************************************************)
MkKey(t, n, e, a, b, c) ==
    [type |-> t, n |-> n, elems |-> e, start |-> a, stop |-> b, step |-> c]
IntKey(n) == MkKey("int", n, <<>>, NoneV, NoneV, NoneV)
FloatKey(n) == MkKey("float", n, <<>>, NoneV, NoneV, NoneV)
TupleKey(e) == MkKey("tuple", 0, e, NoneV, NoneV, NoneV)
SliceKey(a, b, c) == MkKey("slice", 0, <<>>, a, b, c)
OtherKey == MkKey("str", 0, <<>>, NoneV, NoneV, NoneV)

\* an element of a tuple key: the float n/Den, or the int n
FloatElem(n) == [isfloat |-> TRUE, n |-> n]
IntElem(n) == [isfloat |-> FALSE, n |-> n]

(***************************************************************************)
(* pandas: the positions (0-based) a slice selects in a sequence of n      *)
(* items, as slice.indices(n) gives them; out-of-range bounds are clipped, *)
(* never an error.                                                         *)
(***************************************************************************)
SliceStep(c) == IF IsNone(c) THEN 1 ELSE c[1]

SliceBound(o, n, step, isStart) ==
    LET lower == IF step < 0 THEN -1 ELSE 0
        upper == IF step < 0 THEN n - 1 ELSE n
    IN  IF IsNone(o)
        THEN IF isStart THEN (IF step < 0 THEN upper ELSE lower)
                        ELSE (IF step < 0 THEN lower ELSE upper)
        ELSE LET v == o[1]
                 w == IF v < 0 THEN v + n ELSE v
             IN  IF v < 0 THEN Max(w, lower) ELSE Min(w, upper)

RECURSIVE SliceWalk(_, _, _)
SliceWalk(i, stop, step) ==
    IF (step > 0 /\ i >= stop) \/ (step < 0 /\ i <= stop)
    THEN <<>>
    ELSE <<i>> \o SliceWalk(i + step, stop, step)

SliceIndices(a, b, c, n) ==
    LET step == SliceStep(c)
    IN  SliceWalk(SliceBound(a, n, step, TRUE), SliceBound(b, n, step, FALSE), step)

\* DataFrame.iloc[slice]: the 1-based positions of the rows selected
ILocSlice(a, b, c, n) ==
    LET ix == SliceIndices(a, b, c, n) IN [i \in 1..Len(ix) |-> ix[i] + 1]

\* DataFrame.loc[labels]: for each label asked, the rows carrying it
LocLabels(index, labels) ==
    LET hits(l) == SelectSeq([i \in 1..Len(index) |-> i], LAMBDA i : index[i] = l)
    IN  Flatten([j \in 1..Len(labels) |-> hits(labels[j])])

(***************************************************************************)
(* FCMeasurement.subsample.  An outcome is the exception raised ("ok" when *)
(* none), whether it was raised inside the try block, the positions of the *)
(* rows of the table that make the new table, in order, and whether the    *)
(* new table is a positional slice of the old one.                         *)
(***************************************************************************)
Raise(exc, inTry) == [status |-> exc, in_try |-> inTry, pos |-> <<>>, view |-> FALSE]
Selected(pos, isView) == [status |-> "ok", in_try |-> TRUE, pos |-> pos, view |-> isView]

\* the hint about auto_resize is printed by the handler of IndexError
HintPrinted(out) == out.status = "IndexError" /\ out.in_try

\* key = int(num_events * key)
FractionToCount(num_events, n) == PyInt(num_events * n, Den)

\* the float and tuple keys, turned into a count and a slice
ConvertKey(key, num_events) ==
    IF key.type = "float"
    THEN IF key.n > Den \/ key.n < 0
         THEN [err |-> "ValueError", key |-> key]
         ELSE [err |-> "", key |-> IntKey(FractionToCount(num_events, key.n))]
    ELSE IF key.type = "tuple"
    THEN LET all_float == \A i \in 1..Len(key.elems) : key.elems[i].isfloat
         IN  IF Len(key.elems) > 2 \/ ~all_float
             THEN [err |-> "ValueError", key |-> key]
             ELSE IF Len(key.elems) < 2
             THEN [err |-> "IndexError", key |-> key]     \* key[0] or key[1]
             ELSE [err |-> "",
                   key |-> SliceKey(
                       Some(FractionToCount(num_events, key.elems[1].n)),
                       Some(FractionToCount(num_events, key.elems[2].n)),
                       NoneV)]
    ELSE [err |-> "", key |-> key]

\* x if x < num_events else num_events, where x may be None: Python 2 orders
\* None below every int, Python 3 raises TypeError
ResizeBound(x, num_events, pyv) ==
    IF IsNone(x)
    THEN IF pyv = 2 THEN [err |-> "", v |-> NoneV] ELSE [err |-> "TypeError", v |-> NoneV]
    ELSE [err |-> "", v |-> IF x[1] < num_events THEN x ELSE Some(num_events)]

\* the slice branch
SliceRows(key, num_events, auto_resize, pyv) ==
    IF auto_resize
    THEN LET stop == ResizeBound(key.stop, num_events, pyv)
             start == ResizeBound(key.start, num_events, pyv)
         IN  IF stop.err # "" THEN Raise(stop.err, TRUE)
             ELSE IF start.err # "" THEN Raise(start.err, TRUE)
             ELSE Selected(ILocSlice(start.v, stop.v, key.step, num_events), TRUE)
    ELSE Selected(ILocSlice(key.start, key.stop, key.step, num_events), TRUE)

\* the count after auto_resize
ResizeCount(k, num_events, auto_resize) ==
    IF auto_resize /\ k > num_events THEN num_events ELSE k

\* the order were the edge case left out
EffectiveOrderNoEdge(k, order) == order

\* the order after the edge case of a count below 1
EffectiveOrder(k, order) == IF k < 1 THEN "start" ELSE order

\* random.sample(list(data.index), k): draw holds the positions drawn
SampleLabels(index, draw) == [i \in 1..Len(draw) |-> index[draw[i]]]

\* a draw with replacement: the row drawn first, as many times as asked
RandomRowsWithRepeats(index, draw) ==
    LocLabels(index, [i \in 1..Len(draw) |-> index[draw[1]]])

\* data.loc[sample(list(data.index), key)]
RandomRows(index, draw) == LocLabels(index, SampleLabels(index, draw))

\* data.iloc[:key]
StartRows(k, num_events) == ILocSlice(NoneV, Some(k), NoneV, num_events)

\* data.iloc[key:], the sign lost
EndRowsNoSign(k, num_events) == ILocSlice(Some(k), NoneV, NoneV, num_events)

\* data.iloc[-key:]
EndRows(k, num_events) == ILocSlice(Some(-k), NoneV, NoneV, num_events)

\* the int branch
CountRows(index, key, order, auto_resize, draw) ==
    LET num_events == Len(index)
        k == ResizeCount(key.n, num_events, auto_resize)
        ord == EffectiveOrder(k, order)
    IN  IF ord = "random"
        THEN IF k > num_events
             THEN Raise("ValueError", TRUE)      \* sample larger than population
             ELSE Selected(RandomRows(index, draw), FALSE)
        ELSE IF ord = "start" THEN Selected(StartRows(k, num_events), TRUE)
        ELSE IF ord = "end" THEN Selected(EndRows(k, num_events), TRUE)
        ELSE Raise("ValueError", TRUE)

\* the try block
SelectRows(index, key, order, auto_resize, draw, pyv) ==
    IF key.type = "slice" THEN SliceRows(key, Len(index), auto_resize, pyv)
    ELSE IF key.type = "int" THEN CountRows(index, key, order, auto_resize, draw)
    ELSE Raise("TypeError", TRUE)

\* the whole selection of subsample on a table whose index is index
subsample(index, key, order, auto_resize, draw, pyv) ==
    LET conv == ConvertKey(key, Len(index))
    IN  IF conv.err # "" THEN Raise(conv.err, FALSE)
        ELSE SelectRows(index, conv.key, order, auto_resize, draw, pyv)

\* the count random.sample is asked for, 0 when it is not called or fails
DrawSize(index, key, order, auto_resize) ==
    LET conv == ConvertKey(key, Len(index))
        k == ResizeCount(conv.key.n, Len(index), auto_resize)
    IN  IF conv.err = "" /\ conv.key.type = "int" /\ order = "random"
           /\ k >= 1 /\ k <= Len(index)
        THEN k ELSE 0

(***************************************************************************)
(* Measurements and their tables.                                          *)
(*   heap   the table buffers alive, each [cols, rows], a row being        *)
(*          [lab, val]: its index label and its value in every column      *)
(*   pool   the Measurements the caller holds, each [ID, ranges, buf, sel]:*)
(*          ranges is the $PnR column of meta['_channels_'] (entry i is    *)
(*          channel number i), buf its buffer, sel the rows of the buffer  *)
(*          its table shows                                                *)
(*   born   for each Measurement of pool, its table when it was made       *)
(*   last   the last call and what came of it                              *)
(*   py     the major version of the Python that runs the code             *)
(*   coll   the Collections the caller holds, each [ID, members], a member *)
(*          being a Measurement, at the place of its key                   *)
(***************************************************************************)
channel_names == <<"A", "B", "C">>

Channels == Range(channel_names)

\* a reading of the instrument, and a value a Transformation made of v
Raw(x) == [x |-> x, tr |-> <<>>]

\* the reading of channel number c in the event of label lab, the instrument
\* reading base at the least
Reading(base, lab, c) == Raw(base + 10 * lab + c)

\* the table parse_fcs gives for n events: every channel, a RangeIndex
FreshTable(n, base) ==
    [cols |-> channel_names,
     rows |-> [i \in 1..n |->
                 [lab |-> i - 1,
                  val |-> [c \in Channels |->
                             Reading(base, i - 1,
                                     CHOOSE j \in DOMAIN channel_names :
                                         channel_names[j] = c)]]]]

Identity(n) == [i \in 1..n |-> i]

\* the table of Measurement m: the rows of its buffer that it shows
Data(h, m) == [cols |-> h[m.buf].cols,
               rows |-> [i \in 1..Len(m.sel) |-> h[m.buf].rows[m.sel[i]]]]

TableOf(i) == Data(heap, pool[i])

Index(t) == [i \in 1..Len(t.rows) |-> t.rows[i].lab]

\* the rows of t at the positions pos, as a table
TakeRows(t, pos) == [cols |-> t.cols, rows |-> [i \in 1..Len(pos) |-> t.rows[pos[i]]]]

NoCall == [op |-> "none"]

DefaultRanges == [i \in DOMAIN channel_names |-> 1000]

Orders == {"random", "start", "end", "middle"}

PyVersions == {2, 3}

\* a Measurement made of a table that gets a buffer of its own
Owning(m, n, h) == [ID |-> m.ID, ranges |-> m.ranges, buf |-> Len(h) + 1, sel |-> Identity(n)]

\* a Measurement whose table is the rows pos of the table of m, in m's buffer
Window(m, pos) ==
    [ID |-> m.ID, ranges |-> m.ranges, buf |-> m.buf,
     sel |-> [i \in 1..Len(pos) |-> m.sel[pos[i]]]]

(***************************************************************************)
(* The keys tried.                                                         *)
(***************************************************************************)
IntKeys == {IntKey(n) : n \in -1..(MaxRows + 1)}

Fractions == -1..(Den + 1)

FloatKeys == {FloatKey(n) : n \in Fractions}

TupleElems == {FloatElem(n) : n \in Fractions} \cup {IntElem(1)}

TupleKeys == UNION {{TupleKey(e) : e \in [1..k -> TupleElems]} : k \in 0..MaxTuple}

SliceBounds == {NoneV} \cup {Some(n) : n \in -1..(MaxRows + 1)}

SliceSteps == {NoneV, Some(2), Some(-1)}

SliceKeys == {SliceKey(a, b, c) : a \in SliceBounds, b \in SliceBounds, c \in SliceSteps}

Keys == IntKeys \cup FloatKeys \cup TupleKeys \cup SliceKeys \cup {OtherKey}

\* the caller is between two calls and holds fewer than bound Measurements
CanCall(bound) == last.op = "none" /\ Len(pool) < bound

(***************************************************************************)
(* m.subsample(key, order, auto_resize) on Measurement i of the pool.      *)
(* self.copy() copies the                                                  *)
(* Measurement with its table, and set_data puts newdata in the table's    *)
(* place, so the copied table is dropped at once and gets no buffer here.  *)
(***************************************************************************)
Subsample(i, key, order, auto_resize, draw) ==
    LET self == pool[i]
        data == Data(heap, self)
        out == subsample(Index(data), key, order, auto_resize, draw, py)
        newdata == TakeRows(data, out.pos)
        newsample == IF out.view THEN Window(self, out.pos)
                     ELSE Owning(self, Len(out.pos), heap)
    IN  /\ last' = [op |-> "subsample", src |-> i, key |-> key, order |-> order,
                    auto_resize |-> auto_resize, status |-> out.status,
                    hint |-> HintPrinted(out), before |-> data,
                    res |-> IF out.status = "ok" THEN Len(pool) + 1 ELSE 0]
        /\ IF out.status = "ok"
           THEN /\ pool' = Append(pool, newsample)
                /\ heap' = IF out.view THEN heap ELSE Append(heap, newdata)
                /\ born' = Append(born, newdata)
           ELSE UNCHANGED <<pool, heap, born>>
        /\ UNCHANGED <<py, coll>>

SubsampleCall(bound, keys, orders) ==
    /\ CanCall(bound)
    /\ \E i \in 1..Len(pool), key \in keys, order \in orders, auto_resize \in BOOLEAN :
        LET index == Index(TableOf(i))
        IN  \E draw \in Arrangements(1..Len(index), DrawSize(index, key, order, auto_resize)) :
                Subsample(i, key, order, auto_resize, draw)

(***************************************************************************)
(* m.gate(gate): the gate keeps the rows of a mask, dataframe[mask], which *)
(* is a table of its own.                                                  *)
(***************************************************************************)
GateRows(n, keep) == SelectSeq(Identity(n), LAMBDA j : j \in keep)

Gate(i, keep) ==
    LET self == pool[i]
        data == Data(heap, self)
        newdata == TakeRows(data, GateRows(Len(data.rows), keep))
        newsample == Owning(self, Len(newdata.rows), heap)
    IN  /\ last' = [op |-> "gate", src |-> i, status |-> "ok", before |-> data,
                    res |-> Len(pool) + 1]
        /\ pool' = Append(pool, newsample)
        /\ heap' = Append(heap, newdata)
        /\ born' = Append(born, newdata)
        /\ UNCHANGED <<py, coll>>

GateCall(bound) ==
    /\ CanCall(bound)
    /\ \E i \in 1..Len(pool) : \E keep \in SUBSET (1..Len(pool[i].sel)) : Gate(i, keep)

(***************************************************************************)
(* The call has returned or raised.  The caller keeps the Measurement it   *)
(* got last and lets go of the others (m = m.subsample(...)); the buffers  *)
(* nothing refers to go.                                                   *)
(***************************************************************************)
Forget ==
    /\ last.op # "none"
    /\ LET t == TableOf(Len(pool))
           m == pool[Len(pool)]
       IN  /\ heap' = <<t>>
           /\ pool' = <<[ID |-> m.ID, ranges |-> m.ranges, buf |-> 1,
                         sel |-> Identity(Len(t.rows))]>>
           /\ born' = <<born[Len(pool)]>>
    /\ last' = NoCall
    /\ UNCHANGED <<py, coll>>

(***************************************************************************)
(* SpecSub: one freshly loaded Measurement, then chains of subsample and   *)
(* gate calls, each on the Measurement the caller holds.                   *)
(***************************************************************************)
Loaded(n, ranges) ==
    /\ heap = <<FreshTable(n, 0)>>
    /\ pool = <<[ID |-> 1, ranges |-> ranges, buf |-> 1, sel |-> Identity(n)]>>
    /\ born = <<FreshTable(n, 0)>>
    /\ last = NoCall
    /\ coll = <<>>

InitSub ==
    /\ \E n \in 0..MaxRows : Loaded(n, DefaultRanges)
    /\ py \in PyVersions

SubsampleOne == SubsampleCall(2, Keys, Orders)

GateOne == GateCall(2)

NextSub == SubsampleOne \/ GateOne \/ Forget

SpecSub == InitSub /\ [][NextSub]_vars

(***************************************************************************)
(* Transformations.  A Transformation is built of a name, a direction and  *)
(* the keyword arguments, of which the model keeps d: absent, given by the *)
(* caller, or log10 of a range; it may hold a spline fitted between two    *)
(* bounds.  A value a Transformation was applied to keeps the reading and  *)
(* the Transformations applied, innermost first, each with the spline it   *)
(* was applied through, if any.                                            *)
(***************************************************************************)
NoD == [how |-> "absent", of |-> 0]
GivenD(x) == [how |-> "given", of |-> x]
Log10(r) == [how |-> "log10", of |-> r]

NoSpline == <<>>

Transformation(name, direction, d) ==
    [name |-> name, direction |-> direction, d |-> d, spln |-> NoSpline]

\* transformer.set_spline(xmin, xmax)
set_spline(t, xmin, xmax) == [t EXCEPT !.spln = <<xmin, xmax>>]

\* the values of the columns channels of table t
ValuesOf(t, channels) ==
    {t.rows[i].val[c] : i \in 1..Len(t.rows), c \in Range(channels)}

\* the least and the greatest of a set of values, values being ordered as the
\* readings they were made of
MinOf(S) == CHOOSE v \in S : \A w \in S : v.x <= w.x
MaxOf(S) == CHOOSE v \in S : \A w \in S : v.x >= w.x

\* transformer(x, use_spln): with use_spln, a Transformation that holds no
\* spline fits one between the extremes of x before it is applied
FitOnUse(t, S, use_spln) ==
    IF use_spln /\ t.spln = NoSpline /\ S # {}
    THEN set_spline(t, MinOf(S), MaxOf(S))
    ELSE t

ApplyTo(t, use_spln, v) ==
    [x |-> v.x,
     tr |-> Append(v.tr, [t EXCEPT !.spln = IF use_spln THEN t.spln ELSE NoSpline])]

TransformNames == {"hlog", "tlog", "hlog_inv", "tlog_inv", "glog"}

\* the names whose Transformation takes the range parameter d
RangeSensitive == {"hlog", "tlog", "hlog_inv", "tlog_inv"}

Directions == {"forward", "inverse"}

\* a transform argument: a name, or a Transformation already built
ByName(name) == [built |-> FALSE, name |-> name, t |-> Transformation(name, "forward", NoD)]
Prebuilt(t) == [built |-> TRUE, name |-> t.name, t |-> t]

\* the channel lists tried: every list of distinct channels, the empty one too
ChannelLists == UNION {Arrangements(Channels, k) : k \in 0..Len(channel_names)}

RangeValues == {1000, 262143, 262144}

Abs(x) == IF x < 0 THEN -x ELSE x

\* numpy.allclose(ranges, ranges[0]) for whole numbers: every range r has
\* |r - r0| <= 1e-8 + 1e-5 * |r0|, that is |r - r0| * 100000 <= |r0|
AllClose(ranges) ==
    \A i \in 1..Len(ranges) : Abs(ranges[i] - ranges[1]) <= Abs(ranges[1]) \div 100000

\* the match without the -1 (the last channel number wraps to the first name)
NameOfChannelNumberNoOffset(i) == channel_names[(i % Len(channel_names)) + 1]

\* the channel name the metadata row of channel number i is matched with:
\* self.channel_names[i - 1], channel numbers beginning from 1
NameOfChannelNumber(i) == channel_names[i]

\* [float(r['$PnR']) for i, r in channel_meta.iterrows()
\*                   if self.channel_names[i - 1] in channels]
SelectedRanges(ranges, channels) ==
    LET nums == SelectSeq(Identity(Len(ranges)),
                          LAMBDA i : NameOfChannelNumber(i) \in Range(channels))
    IN  [j \in 1..Len(nums) |-> ranges[nums[j]]]

(***************************************************************************)
(* The transformer of a transform call: the one given, or one built, with  *)
(* d found from the ranges of the selected channels when auto_range is set *)
(* and the caller gave no d.                                               *)
(***************************************************************************)
Built(t, warned) == [status |-> "ok", t |-> t, warned |-> warned]
NotBuilt(exc) == [status |-> exc, t |-> Transformation("", "", NoD), warned |-> FALSE]

CreateTransformer(transform, direction, channels, auto_range, dkw, meta_ranges) ==
    IF transform.built THEN Built(transform.t, FALSE)
    ELSE IF auto_range /\ ~IsNone(dkw)
    THEN Built(Transformation(transform.name, direction, GivenD(dkw[1])), TRUE)
    ELSE IF auto_range
    THEN LET ranges == SelectedRanges(meta_ranges, channels)
         IN  IF ranges = <<>> THEN NotBuilt("IndexError")          \* ranges[0]
             ELSE IF ~AllClose(ranges) THEN NotBuilt("Exception")
             ELSE IF transform.name \in RangeSensitive
             THEN Built(Transformation(transform.name, direction, Log10(ranges[1])), FALSE)
             ELSE Built(Transformation(transform.name, direction, NoD), FALSE)
    ELSE Built(Transformation(transform.name, direction,
                              IF IsNone(dkw) THEN NoD ELSE GivenD(dkw[1])), FALSE)

(***************************************************************************)
(* Tables written in place and filtered.                                   *)
(***************************************************************************)
\* new_data[channels] = transformed, new_data being the table of m: the
\* columns are written into the buffer of m, at the rows m shows
WriteColumns(h, m, channels, t, use_spln) ==
    LET b == h[m.buf]
        rows == [p \in 1..Len(b.rows) |->
                    IF p \in Range(m.sel)
                    THEN [lab |-> b.rows[p].lab,
                          val |-> [c \in DOMAIN b.rows[p].val |->
                                     IF c \in Range(channels)
                                     THEN ApplyTo(t, use_spln, b.rows[p].val[c])
                                     ELSE b.rows[p].val[c]]]
                    ELSE b.rows[p]]
    IN  [h EXCEPT ![m.buf] = [cols |-> b.cols, rows |-> rows]]

\* the columns asked, left in the order the table has them
FilterInTableOrder(t, channels) ==
    LET cols == SelectSeq(t.cols, LAMBDA c : c \in Range(channels))
    IN  [cols |-> cols,
         rows |-> [i \in 1..Len(t.rows) |->
                     [lab |-> t.rows[i].lab,
                      val |-> [c \in Range(cols) |-> t.rows[i].val[c]]]]]

\* data.filter(channels): a table of the columns asked that the table has, in
\* the order they are asked
Filter(t, channels) ==
    LET cols == SelectSeq(channels, LAMBDA c : c \in Range(t.cols))
    IN  [cols |-> cols,
         rows |-> [i \in 1..Len(t.rows) |->
                     [lab |-> t.rows[i].lab,
                      val |-> [c \in Range(cols) |-> t.rows[i].val[c]]]]]

\* self.copy(): a deep copy, the table copied into a buffer of its own
copy(self, h) ==
    LET t == Data(h, self)
    IN  [h |-> Append(h, t), m |-> Owning(self, Len(t.rows), h)]

\* the table transform would work on without the copy: the caller's own
NoWorkspace(self, h) == [h |-> h, m |-> self]

\* new = self.copy(); data = new.data: the table transform works on
TransformWorkspace(self, h) == copy(self, h)

(***************************************************************************)
(* FCMeasurement.transform on Measurement self, the heap being h: what it  *)
(* raises ("ok" if nothing), the heap it leaves, the Measurement it        *)
(* returns, the transformer it used and whether it warned.                 *)
(***************************************************************************)
\* new_data[channels] = transformed; new.data = new_data; new.ID = ID
TransformWrite(self, h, rows_h, target, chans, status, transformer, warned, use_spln, ID) ==
    [status |-> status,
     h |-> IF status = "ok"
           THEN WriteColumns(rows_h, target, chans, transformer, use_spln)
           ELSE h,
     m |-> [target EXCEPT !.ID = IF IsNone(ID) THEN self.ID ELSE ID[1]],
     transformer |-> transformer, warned |-> warned, channels |-> chans]

\* transformed = transformer(data[channels], use_spln), and new_data: data
\* itself with return_all, written in place, else data.filter(channels)
TransformApply(self, h, work, data, chans, made, return_all, use_spln, ID) ==
    LET status == IF made.status # "ok" THEN made.status
                  ELSE IF ~(Range(chans) \subseteq Range(data.cols)) THEN "KeyError"
                  ELSE "ok"
    IN  TransformWrite(self, h,
                       IF return_all THEN work.h ELSE Append(work.h, Filter(data, chans)),
                       IF return_all THEN work.m ELSE Owning(self, Len(data.rows), work.h),
                       chans, status,
                       IF status = "ok"
                       THEN FitOnUse(made.t, ValuesOf(data, chans), use_spln)
                       ELSE made.t,
                       made.warned, use_spln, ID)

TransformBuild(self, h, work, data, chans, trans, direction, return_all, auto_range, dkw, use_spln, ID) ==
    TransformApply(self, h, work, data, chans,
                   CreateTransformer(trans, direction, chans, auto_range, dkw, self.ranges),
                   return_all, use_spln, ID)

TransformData(self, h, work, data, trans, direction, channels, return_all, auto_range, dkw, use_spln, ID) ==
    TransformBuild(self, h, work, data,
                   IF IsNone(channels) THEN data.cols ELSE channels[1],
                   trans, direction, return_all, auto_range, dkw, use_spln, ID)

TransformCopy(self, h, work, trans, direction, channels, return_all, auto_range, dkw, use_spln, ID) ==
    TransformData(self, h, work, Data(work.h, work.m), trans, direction, channels,
                  return_all, auto_range, dkw, use_spln, ID)

transform(self, h, trans, direction, channels, return_all, auto_range, dkw, use_spln, ID) ==
    TransformCopy(self, h, TransformWorkspace(self, h), trans, direction, channels,
                  return_all, auto_range, dkw, use_spln, ID)

(***************************************************************************)
(* m.transform(...) on Measurement i of the pool.                          *)
(***************************************************************************)
TransformReturns(i, trans, direction, return_all, auto_range, dkw, use_spln, out) ==
    /\ last' = [op |-> "transform", src |-> i, transform |-> trans,
                direction |-> direction, channels |-> out.channels,
                return_all |-> return_all, auto_range |-> auto_range,
                dkw |-> dkw, use_spln |-> use_spln, status |-> out.status,
                before |-> TableOf(i), transformer |-> out.transformer,
                warned |-> out.warned,
                res |-> IF out.status = "ok" THEN Len(pool) + 1 ELSE 0]
    /\ IF out.status = "ok"
       THEN /\ pool' = Append(pool, out.m)
            /\ heap' = out.h
            /\ born' = Append(born, Data(out.h, out.m))
       ELSE UNCHANGED <<pool, heap, born>>
    /\ UNCHANGED <<py, coll>>

Transform(i, trans, direction, channels, return_all, auto_range, dkw, use_spln, ID) ==
    TransformReturns(i, trans, direction, return_all, auto_range, dkw, use_spln,
                     transform(pool[i], heap, trans, direction, channels, return_all,
                               auto_range, dkw, use_spln, ID))

TransformCall(bound, transforms, chanlists, dkws, IDs) ==
    /\ CanCall(bound)
    /\ \E i \in 1..Len(pool), trans \in transforms, direction \in Directions,
          channels \in chanlists, return_all \in BOOLEAN, auto_range \in BOOLEAN,
          dkw \in dkws, use_spln \in BOOLEAN, ID \in IDs :
            Transform(i, trans, direction, channels, return_all, auto_range, dkw,
                      use_spln, ID)

\* the caller lets go of the Measurement the last call returned, if any, and
\* holds again the one freshly loaded Measurement alone
Discard ==
    /\ last.op # "none"
    /\ last' = NoCall
    /\ pool' = SubSeq(pool, 1, 1)
    /\ heap' = SubSeq(heap, 1, 1)
    /\ born' = SubSeq(born, 1, 1)
    /\ UNCHANGED <<py, coll>>

(***************************************************************************)
(* SpecTr: one freshly loaded Measurement, its channels declaring any of   *)
(* the ranges, and single transform calls on it.                           *)
(***************************************************************************)
AllTransforms ==
    {ByName(n) : n \in TransformNames}
        \cup {Prebuilt(Transformation("hlog", "forward", GivenD(3)))}

InitTr ==
    /\ \E ranges \in [DOMAIN channel_names -> RangeValues] : Loaded(1, ranges)
    /\ py \in PyVersions

TransformOne ==
    TransformCall(2, AllTransforms, {NoneV} \cup {Some(c) : c \in ChannelLists},
                  {NoneV, Some(3)}, {NoneV})

NextTr == TransformOne \/ Discard

SpecTr == InitTr /\ [][NextTr]_vars

(***************************************************************************)
(* FCCollection.transform on Collection c, the heap being h.  The members  *)
(* are taken in the order of their keys.                                   *)
(***************************************************************************)
\* self.copy(): every member copied, from member k on
RECURSIVE CopyMembers(_, _, _)
CopyMembers(members, k, h) ==
    IF k > Len(members) THEN [h |-> h, members |-> members]
    ELSE LET c == copy(members[k], h)
         IN  CopyMembers([members EXCEPT ![k] = c.m], k + 1, c.h)

\* the extremes of the columns channels over all the members:
\* self.apply(lambda x: x[channels].max().max(), applyto='data').max().max()
AllValues(members, h, channels) ==
    UNION {ValuesOf(Data(h, members[k]), channels) : k \in 1..Len(members)}

HasColumns(m, h, channels) == Range(channels) \subseteq Range(h[m.buf].cols)

Stopped(status, h, members, t, k) ==
    [status |-> status, h |-> h, members |-> members, transformer |-> t, at |-> k]

\* new[k] = v.transform(transformer, channels=channels, return_all=return_all,
\*                      use_spln=use_spln), from member k on
RECURSIVE TransformShared(_, _, _, _, _, _, _)
SharedStep(out, members, k, h, channels, return_all, use_spln) ==
    IF out.status # "ok"
    THEN Stopped(out.status, h, members, out.transformer, k)
    ELSE TransformShared([members EXCEPT ![k] = out.m], k + 1, out.h,
                         out.transformer, channels, return_all, use_spln)

TransformShared(members, k, h, t, channels, return_all, use_spln) ==
    IF k > Len(members)
    THEN Stopped("ok", h, members, t, 0)
    ELSE SharedStep(transform(members[k], h, Prebuilt(t), "forward", Some(channels),
                              return_all, TRUE, NoneV, use_spln, NoneV),
                    members, k, h, channels, return_all, use_spln)

\* new[k] = v.transform(transform, direction=direction, channels=channels, ...),
\* from member k on; a Transformation given is one object for all the members
RECURSIVE TransformEach(_, _, _, _, _, _, _, _, _, _)
EachStep(out, members, k, h, trans, direction, channels, return_all, auto_range, dkw, use_spln) ==
    IF out.status # "ok"
    THEN Stopped(out.status, h, members, out.transformer, k)
    ELSE TransformEach([members EXCEPT ![k] = out.m], k + 1, out.h,
                       IF trans.built THEN Prebuilt(out.transformer) ELSE trans,
                       direction, channels, return_all, auto_range, dkw, use_spln)

TransformEach(members, k, h, trans, direction, channels, return_all, auto_range, dkw, use_spln) ==
    IF k > Len(members)
    THEN Stopped("ok", h, members, trans.t, 0)
    ELSE EachStep(transform(members[k], h, trans, direction, channels, return_all,
                            auto_range, dkw, use_spln, NoneV),
                  members, k, h, trans, direction, channels, return_all, auto_range,
                  dkw, use_spln)

\* the ranges the shared Transformation is built from: those of the first member
SharedRanges(members) == members[1].ranges

\* if use_spln: transformer.set_spline(xmin, xmax), the extremes being those
\* of all the members
SharedSpline(made, members, h, trans, chans, use_spln) ==
    IF made.status # "ok" \/ trans.built \/ ~use_spln THEN made
    ELSE IF \E k \in 1..Len(members) : ~HasColumns(members[k], h, chans)
    THEN NotBuilt("KeyError")
    ELSE IF AllValues(members, h, chans) = {} THEN made
    ELSE Built(set_spline(made.t, MinOf(AllValues(members, h, chans)),
                          MaxOf(AllValues(members, h, chans))), made.warned)

\* the transformer of the share_transform branch
SharedTransformer(members, h, trans, direction, chans, auto_range, dkw, use_spln) ==
    SharedSpline(CreateTransformer(trans, direction, chans, auto_range, dkw,
                                   SharedRanges(members)),
                 members, h, trans, chans, use_spln)

\* the channel names the metadata of Measurement m holds, one for each range
ChannelNamesOf(m) == SubSeq(channel_names, 1, Len(m.ranges))

\* the Collection the loops would fill without the copy: self itself
NoCollectionWorkspace(c, h) == [h |-> h, members |-> c.members, alias |-> TRUE]

\* new = self.copy(): the Collection the loops fill, an object apart from self
CollectionWorkspace(c, h) ==
    [h |-> CopyMembers(c.members, 1, h).h,
     members |-> CopyMembers(c.members, 1, h).members, alias |-> FALSE]

\* what the call leaves: the exception raised ("ok" if none), the heap, the
\* Collection returned, and the members self holds afterwards
CollectionResult(c, new, out, chans, warned, ID) ==
    [status |-> out.status, h |-> out.h,
     c |-> [ID |-> IF IsNone(ID) THEN c.ID ELSE ID[1], members |-> out.members],
     self_members |-> IF new.alias THEN out.members ELSE c.members,
     transformer |-> out.transformer, at |-> out.at, channels |-> chans,
     warned |-> warned]

TransformSharing(c, h, new, made, chans, return_all, use_spln, ID) ==
    CollectionResult(c, new,
                     IF made.status # "ok"
                     THEN Stopped(made.status, h, c.members, made.t, 0)
                     ELSE TransformShared(new.members, 1, new.h, made.t, chans,
                                          return_all, use_spln),
                     chans, made.warned, ID)

TransformInto(c, h, new, trans, direction, share_transform, channels, return_all, auto_range, dkw, use_spln, ID) ==
    IF share_transform
    THEN TransformSharing(c, h, new,
                          SharedTransformer(c.members, h, trans, direction,
                                            IF IsNone(channels)
                                            THEN ChannelNamesOf(c.members[1])
                                            ELSE channels[1],
                                            auto_range, dkw, use_spln),
                          IF IsNone(channels) THEN ChannelNamesOf(c.members[1])
                          ELSE channels[1],
                          return_all, use_spln, ID)
    ELSE CollectionResult(c, new,
                          TransformEach(new.members, 1, new.h, trans, direction,
                                        channels, return_all, auto_range, dkw, use_spln),
                          IF IsNone(channels) THEN <<>> ELSE channels[1], FALSE, ID)

collection_transform(c, h, trans, direction, share_transform, channels, return_all, auto_range, dkw, use_spln, ID) ==
    TransformInto(c, h, CollectionWorkspace(c, h), trans, direction, share_transform,
                  channels, return_all, auto_range, dkw, use_spln, ID)

\* the tables of the members of Collection c
MemberTables(h, c) == [k \in 1..Len(c.members) |-> Data(h, c.members[k])]

CollectionReturns(i, trans, direction, share_transform, return_all, auto_range, dkw, use_spln, out) ==
    /\ last' = [op |-> "collection.transform", src |-> i, transform |-> trans,
                direction |-> direction, share_transform |-> share_transform,
                channels |-> out.channels, return_all |-> return_all,
                auto_range |-> auto_range, dkw |-> dkw, use_spln |-> use_spln,
                status |-> out.status, at |-> out.at,
                before |-> [c |-> coll[i], tables |-> MemberTables(heap, coll[i])],
                transformer |-> out.transformer, warned |-> out.warned,
                res |-> IF out.status = "ok" THEN Len(coll) + 1 ELSE 0]
    /\ coll' = IF out.status = "ok"
               THEN Append([coll EXCEPT ![i].members = out.self_members], out.c)
               ELSE [coll EXCEPT ![i].members = out.self_members]
    /\ heap' = out.h
    /\ UNCHANGED <<pool, born, py>>

CollectionTransform(i, trans, direction, share_transform, channels, return_all, auto_range, dkw, use_spln, ID) ==
    CollectionReturns(i, trans, direction, share_transform, return_all, auto_range,
                      dkw, use_spln,
                      collection_transform(coll[i], heap, trans, direction,
                                           share_transform, channels, return_all,
                                           auto_range, dkw, use_spln, ID))

CollectionTransformCall(transforms, chanlists, dkws, IDs) ==
    /\ last.op = "none"
    /\ \E i \in 1..Len(coll), trans \in transforms, direction \in Directions,
          share_transform \in BOOLEAN, channels \in chanlists, return_all \in BOOLEAN,
          auto_range \in BOOLEAN, dkw \in dkws, use_spln \in BOOLEAN, ID \in IDs :
            CollectionTransform(i, trans, direction, share_transform, channels,
                                return_all, auto_range, dkw, use_spln, ID)

\* the caller lets go of the Collection the last call returned, if any, and
\* holds again the one Collection it loaded
DiscardCollection ==
    /\ last.op # "none"
    /\ last' = NoCall
    /\ coll' = SubSeq(coll, 1, 1)
    /\ heap' = SubSeq(heap, 1, Len(coll[1].members))
    /\ UNCHANGED <<pool, born, py>>

(***************************************************************************)
(* SpecColl: one Collection of MaxMembers freshly loaded Measurements,     *)
(* which may declare different ranges and hold different events, and       *)
(* single transform calls on it.                                           *)
(***************************************************************************)
MaxMembers == 2

\* the ranges a member may declare: all channels alike, or the first apart
CollRanges == {[i \in DOMAIN channel_names |-> 1000],
               [i \in DOMAIN channel_names |-> IF i = 1 THEN 2000 ELSE 1000]}

\* the channel lists tried on Collections: None, and the lists of one or two
CollChannelLists ==
    {NoneV} \cup {Some(c) : c \in UNION {Arrangements(Channels, k) : k \in 1..2}}

CollTransforms ==
    {ByName("hlog"), ByName("glog"),
     Prebuilt(Transformation("hlog", "forward", GivenD(3)))}

\* a freshly loaded member: its events, its least reading, its declared ranges
MemberShapes ==
    {[n |-> n, base |-> b, ranges |-> r] : n \in 1..2, b \in {0, 4}, r \in CollRanges}

LoadedCollection(shapes) ==
    /\ heap = [k \in 1..Len(shapes) |-> FreshTable(shapes[k].n, shapes[k].base)]
    /\ coll = <<[ID |-> 1,
                 members |-> [k \in 1..Len(shapes) |->
                                [ID |-> k, ranges |-> shapes[k].ranges, buf |-> k,
                                 sel |-> Identity(shapes[k].n)]]]>>
    /\ pool = <<>>
    /\ born = <<>>
    /\ last = NoCall

InitColl ==
    /\ \E shapes \in [1..MaxMembers -> MemberShapes] : LoadedCollection(shapes)
    /\ py \in PyVersions

CollectionTransformOne ==
    CollectionTransformCall(CollTransforms, CollChannelLists, {NoneV, Some(3)}, {NoneV})

NextColl == CollectionTransformOne \/ DiscardCollection

SpecColl == InitColl /\ [][NextColl]_vars

(***************************************************************************)
(* FCCollection.gate and FCCollection.subsample: self.apply(func,          *)
(* output_format='collection', ID=ID) calls func on every member, in the   *)
(* order of the keys, and makes a new Collection of what the calls return. *)
(***************************************************************************)
\* a gate: the events whose reading in a channel is at least a threshold
ThresholdGate(channel, threshold) == [channel |-> channel, threshold |-> threshold]

\* gate(data): the positions of the rows that pass, or the exception
GateTable(g, t) ==
    IF g.channel \notin Range(t.cols) THEN Raise("KeyError", FALSE)
    ELSE Selected(SelectSeq(Identity(Len(t.rows)),
                            LAMBDA j : t.rows[j].val[g.channel].x >= g.threshold), FALSE)

\* what a call on one Measurement leaves: the exception raised ("ok" if none),
\* the heap, the Measurement returned
MemberResult(self, h, data, out) ==
    [status |-> out.status,
     h |-> IF out.status = "ok" /\ ~out.view THEN Append(h, TakeRows(data, out.pos)) ELSE h,
     m |-> IF out.view THEN Window(self, out.pos) ELSE Owning(self, Len(out.pos), h)]

\* well.gate(gate)
measurement_gate(self, h, g) ==
    MemberResult(self, h, Data(h, self), GateTable(g, Data(h, self)))

\* well.subsample(key=key, order=order, auto_resize=auto_resize)
measurement_subsample(self, h, key, order, auto_resize, draw, pyv) ==
    MemberResult(self, h, Data(h, self),
                 subsample(Index(Data(h, self)), key, order, auto_resize, draw, pyv))

\* func(well), for member k
MemberCall(call, self, h, k) ==
    IF call.op = "gate" THEN measurement_gate(self, h, call.gate)
    ELSE measurement_subsample(self, h, call.key, call.order, call.auto_resize,
                               call.draws[k], call.py)

\* self.apply(func, output_format='collection'), from member k on; results
\* holds what func returned for the members before
RECURSIVE ApplyEach(_, _, _, _, _)
ApplyStep(out, call, members, k, results) ==
    IF out.status # "ok"
    THEN [status |-> out.status, h |-> out.h, members |-> results, at |-> k]
    ELSE ApplyEach(call, members, k + 1, out.h, Append(results, out.m))

ApplyEach(call, members, k, h, results) ==
    IF k > Len(members)
    THEN [status |-> "ok", h |-> h, members |-> results, at |-> 0]
    ELSE ApplyStep(MemberCall(call, members[k], h, k), call, members, k, results)

\* the draws random.sample may make, one for each member from member k on
RECURSIVE MemberDraws(_, _, _, _, _, _)
MemberDraws(members, k, h, key, order, auto_resize) ==
    IF k > Len(members) THEN {<<>>}
    ELSE LET index == Index(Data(h, members[k]))
         IN  {<<d>> \o rest :
                 d \in Arrangements(1..Len(index), DrawSize(index, key, order, auto_resize)),
                 rest \in MemberDraws(members, k + 1, h, key, order, auto_resize)}

CollectionApplied(i, call, ID, out) ==
    /\ last' = [op |-> "collection." \o call.op, src |-> i, call |-> call,
                status |-> out.status, at |-> out.at,
                before |-> [c |-> coll[i], tables |-> MemberTables(heap, coll[i])],
                res |-> IF out.status = "ok" THEN Len(coll) + 1 ELSE 0]
    /\ coll' = IF out.status = "ok"
               THEN Append(coll, [ID |-> IF IsNone(ID) THEN coll[i].ID ELSE ID[1],
                                  members |-> out.members])
               ELSE coll
    /\ heap' = out.h
    /\ UNCHANGED <<pool, born, py>>

CollectionApply(i, call, ID) ==
    CollectionApplied(i, call, ID, ApplyEach(call, coll[i].members, 1, heap, <<>>))

\* coll.gate(gate, ID)
CollectionGateCall(gates, IDs) ==
    /\ last.op = "none"
    /\ \E i \in 1..Len(coll), g \in gates, ID \in IDs :
          CollectionApply(i, [op |-> "gate", gate |-> g], ID)

\* coll.subsample(key, order, auto_resize, ID)
CollectionSubsampleCall(keys, orders, IDs) ==
    /\ last.op = "none"
    /\ \E i \in 1..Len(coll), key \in keys, order \in orders, auto_resize \in BOOLEAN,
          ID \in IDs :
          \E draws \in MemberDraws(coll[i].members, 1, heap, key, order, auto_resize) :
              CollectionApply(i, [op |-> "subsample", key |-> key, order |-> order,
                                  auto_resize |-> auto_resize, draws |-> draws,
                                  py |-> py], ID)

(***************************************************************************)
(* SpecFan: one Collection of MaxMembers freshly loaded Measurements,      *)
(* which may hold different numbers of events, declare different ranges    *)
(* and lack the last channel, and single transform, gate and subsample     *)
(* calls on it.                                                            *)
(***************************************************************************)
\* the channels a loaded file may hold: all of them, or all but the last
FanColumns == {channel_names, SubSeq(channel_names, 1, Len(channel_names) - 1)}

FanShapes ==
    {[n |-> n, cols |-> cols, ranges |-> SubSeq(r, 1, Len(cols))] :
        n \in 1..2, cols \in FanColumns, r \in CollRanges}

LoadedFan(shapes) ==
    /\ heap = [k \in 1..Len(shapes) |-> Filter(FreshTable(shapes[k].n, 0), shapes[k].cols)]
    /\ coll = <<[ID |-> 1,
                 members |-> [k \in 1..Len(shapes) |->
                                [ID |-> k, ranges |-> shapes[k].ranges, buf |-> k,
                                 sel |-> Identity(shapes[k].n)]]]>>
    /\ pool = <<>>
    /\ born = <<>>
    /\ last = NoCall

InitFan ==
    /\ \E shapes \in [1..MaxMembers -> FanShapes] : LoadedFan(shapes)
    /\ py \in PyVersions

FanChannelLists == {NoneV, Some(<<"A">>), Some(<<"A", "B">>), Some(<<"C">>)}

FanGates == {ThresholdGate(c, t) : c \in {"A", "C"}, t \in {0, 11}}

FanKeys == {IntKey(1), IntKey(2), FloatKey(1), SliceKey(NoneV, Some(1), NoneV), OtherKey}

FanTransforms == {ByName("hlog")}

FanIDs == {NoneV, Some(7)}

FanTransform == CollectionTransformCall(FanTransforms, FanChannelLists, {NoneV}, {NoneV})

FanGate == CollectionGateCall(FanGates, FanIDs)

FanSubsample == CollectionSubsampleCall(FanKeys, Orders, {NoneV})

NextFan == FanTransform \/ FanGate \/ FanSubsample \/ DiscardCollection

SpecFan == InitFan /\ [][NextFan]_vars

(***************************************************************************)
(* Spec: one freshly loaded Measurement, then transform, gate and          *)
(* subsample calls on any Measurement the caller holds, the caller keeping *)
(* every Measurement a call returns, up to MaxPool of them.                *)
(***************************************************************************)
PoolKeys ==
    {IntKey(1), IntKey(2), FloatKey(1), SliceKey(Some(1), NoneV, NoneV),
     TupleKey(<<FloatElem(0), FloatElem(1)>>)}

PoolTransforms == {ByName("hlog")}

PoolChannelLists == {NoneV, Some(<<"A">>)}

Init ==
    /\ \E n \in 1..MaxRows : Loaded(n, DefaultRanges)
    /\ py \in PyVersions

SubsampleAny == SubsampleCall(MaxPool, PoolKeys, Orders)

GateAny == GateCall(MaxPool)

TransformAny == TransformCall(MaxPool, PoolTransforms, PoolChannelLists, {NoneV}, {NoneV})

\* the call has returned or raised, and the caller keeps all it holds
Keep ==
    /\ last.op # "none"
    /\ last' = NoCall
    /\ UNCHANGED <<heap, pool, born, py, coll>>

Next == SubsampleAny \/ GateAny \/ TransformAny \/ Keep

Spec == Init /\ [][Next]_vars

(***************************************************************************)
(* The last call, for the properties of one call.                          *)
(***************************************************************************)
Subsampled == last.op = "subsample"

\* the events of the table subsample was called on
SubN == Len(last.before.rows)

\* the table of the Measurement the last call returned
Returned == TableOf(last.res)

ValidOrders == {"random", "start", "end"}

\* the table is not as parse_fcs made it: rows were taken out or reordered
Derived(t) == Index(t) # [i \in 1..Len(t.rows) |-> i - 1]

(***************************************************************************)
(* C4: a call subsample(k, order='random', auto_resize=False) with an int  *)
(* k, 0 <= k <= N, on a Measurement of N rows, freshly loaded or returned  *)
(* by earlier gate and subsample calls, returns a Measurement of exactly k *)
(* rows, each a row of the input table and no two the same; and            *)
(* subsample(1.0) returns exactly N rows.                                  *)
(***************************************************************************)
C4_RandomDistinctRows ==
    /\ (/\ Subsampled
        /\ last.key.type = "int" /\ last.key.n >= 0 /\ last.key.n <= SubN
        /\ last.order = "random" /\ ~last.auto_resize)
       => /\ last.status = "ok"
          /\ Len(Returned.rows) = last.key.n
          /\ Returned.cols = last.before.cols
          /\ \A i \in 1..Len(Returned.rows) : Returned.rows[i] \in Range(last.before.rows)
          /\ \A i, j \in 1..Len(Returned.rows) :
                 i # j => Returned.rows[i] # Returned.rows[j]
    /\ (/\ Subsampled
        /\ last.key = FloatKey(Den)
        /\ last.order = "random" /\ ~last.auto_resize)
       => /\ last.status = "ok"
          /\ Len(Returned.rows) = SubN

\* a random draw of two or more rows, out of their order in the table, from a
\* Measurement that an earlier call returned
C4_Witness ==
    /\ Subsampled
    /\ last.key.type = "int" /\ last.key.n >= 2
    /\ last.order = "random" /\ ~last.auto_resize
    /\ last.status = "ok"
    /\ Derived(last.before)
    /\ Returned.rows[1] = last.before.rows[2]

(***************************************************************************)
(* C5: for an int k, 1 <= k <= N, subsample(k, order='start') returns the  *)
(* first k rows of the table by position and subsample(k, order='end') the *)
(* last k, in the order of the table; the rows are a function of the table *)
(* and k, so the same call on the same Measurement returns them again.     *)
(***************************************************************************)
C5_StartEndRows ==
    (/\ Subsampled
     /\ last.key.type = "int" /\ last.key.n >= 1 /\ last.key.n <= SubN)
    => /\ last.order = "start"
          => /\ last.status = "ok"
             /\ Returned.rows = SubSeq(last.before.rows, 1, last.key.n)
       /\ last.order = "end"
          => /\ last.status = "ok"
             /\ Returned.rows = SubSeq(last.before.rows, SubN - last.key.n + 1, SubN)

\* the last two rows of three, of a Measurement that an earlier call returned
C5_Witness ==
    /\ Subsampled
    /\ last.key = IntKey(2) /\ last.order = "end"
    /\ SubN = 3 /\ Derived(last.before)
    /\ last.status = "ok"
    /\ Len(Returned.rows) = 2

\* the count a key asks for: an int key itself, a float key's floor(N * key)
AskedCount(key, n) == IF key.type = "int" THEN key.n ELSE (n * key.n) \div Den

FloatInRange(n) == n >= 0 /\ n <= Den

(***************************************************************************)
(* C6: whenever the count asked for is below 1 (an int key that is zero or *)
(* negative, or a float key in [0.0, 1.0] with floor(N * key) = 0),        *)
(* subsample takes the 'start' policy whatever the order given and returns *)
(* a Measurement whose table has 0 rows.                                   *)
(***************************************************************************)
C6_BelowOneIsEmpty ==
    (/\ Subsampled
     /\ \/ last.key.type = "int"
        \/ last.key.type = "float" /\ FloatInRange(last.key.n)
     /\ AskedCount(last.key, SubN) < 1)
    => /\ last.status = "ok"
       /\ Len(Returned.rows) = 0

\* the part of C6 the code keeps: a count of exactly 0 gives an empty table
C6_ZeroIsEmpty ==
    (/\ Subsampled
     /\ \/ last.key.type = "int"
        \/ last.key.type = "float" /\ FloatInRange(last.key.n)
     /\ AskedCount(last.key, SubN) = 0)
    => /\ last.status = "ok"
       /\ Len(Returned.rows) = 0

(***************************************************************************)
(* C7, as claimed: every subsample call whose order is none of 'random',   *)
(* 'start', 'end' fails with the invalid-argument error and returns no     *)
(* Measurement, whatever int, float, tuple or slice its key is.            *)
(***************************************************************************)
C7_BadOrderAlwaysFails ==
    (/\ Subsampled
     /\ last.order \notin ValidOrders
     /\ last.key.type \in {"int", "float", "tuple", "slice"})
    => /\ last.status = "ValueError"
       /\ last.res = 0

\* what the call gives when only its order is changed to 'start'
WithStartOrder ==
    subsample(Index(last.before), last.key, "start", last.auto_resize, <<>>, py)

(***************************************************************************)
(* C7, amended: a subsample call whose order is none of 'random', 'start', *)
(* 'end' fails with ValueError and returns no Measurement when its key is  *)
(* an int, or a float in [0.0, 1.0], whose count, brought down to N when   *)
(* auto_resize is set, is at least 1.  When that count is below 1 the      *)
(* order is replaced by 'start' and the call returns a Measurement; when   *)
(* the key is a tuple or a slice the order is not read, and the call ends  *)
(* as it does with order='start'.                                          *)
(***************************************************************************)
C7_BadOrderFailsForCounts ==
    (Subsampled /\ last.order \notin ValidOrders)
    => LET counted == \/ last.key.type = "int"
                      \/ last.key.type = "float" /\ FloatInRange(last.key.n)
           k == ResizeCount(AskedCount(last.key, SubN), SubN, last.auto_resize)
       IN  /\ (counted /\ k >= 1) => (last.status = "ValueError" /\ last.res = 0)
           /\ (counted /\ k < 1) => (last.status = "ok" /\ last.res # 0)
           /\ last.key.type \in {"tuple", "slice"}
              => /\ last.status = WithStartOrder.status
                 /\ last.status = "ok"
                    => Returned = TakeRows(last.before, WithStartOrder.pos)

\* a count of two with an order that is none of the three
C7_Witness ==
    /\ Subsampled
    /\ last.order = "middle"
    /\ last.key = IntKey(2) /\ SubN = 3
    /\ last.status = "ValueError"

(***************************************************************************)
(* C8: subsample takes a fractional key only as a float f in [0.0, 1.0],   *)
(* which becomes the count floor(N * f), or as a tuple of exactly two      *)
(* floats (a, b), each in [0.0, 1.0], which becomes the positions from     *)
(* floor(N * a) up to but not floor(N * b); a float outside [0.0, 1.0], a  *)
(* tuple of another length, a tuple with an element that is no float or    *)
(* with an element outside [0.0, 1.0] fails with ValueError and selects no *)
(* rows.                                                                   *)
(***************************************************************************)
C8_FractionalKeys ==
    LET e == last.key.elems
        twoFloats == Len(e) = 2 /\ \A i \in 1..2 : e[i].isfloat /\ FloatInRange(e[i].n)
    IN  /\ (Subsampled /\ last.key.type = "float" /\ ~FloatInRange(last.key.n))
           => (last.status = "ValueError" /\ last.res = 0)
        /\ (Subsampled /\ last.key.type = "float" /\ FloatInRange(last.key.n)
                /\ last.order = "start")
           => /\ last.status = "ok"
              /\ Len(Returned.rows) = (SubN * last.key.n) \div Den
        /\ (Subsampled /\ last.key.type = "tuple" /\ ~twoFloats)
           => (last.status = "ValueError" /\ last.res = 0)
        /\ (Subsampled /\ last.key.type = "tuple" /\ twoFloats)
           => /\ last.status = "ok"
              /\ Returned.rows = SubSeq(last.before.rows,
                                        (SubN * e[1].n) \div Den + 1,
                                        (SubN * e[2].n) \div Den)

(***************************************************************************)
(* C9: with auto_resize=False, a subsample call whose int count is above N *)
(* (order 'random', 'start' or 'end') or whose slice has a bound above N   *)
(* fails with the out-of-bounds error, which reaches the caller after the  *)
(* hint about auto_resize was printed; it never returns a smaller table    *)
(* instead.                                                                *)
(***************************************************************************)
C9_OutOfBoundsFails ==
    LET above(o) == ~IsNone(o) /\ o[1] > SubN
    IN  (/\ Subsampled
         /\ ~last.auto_resize
         /\ \/ last.key.type = "int" /\ last.key.n > SubN /\ last.order \in ValidOrders
            \/ last.key.type = "slice" /\ (above(last.key.start) \/ above(last.key.stop)))
        => /\ last.status = "IndexError"
           /\ last.hint
           /\ last.res = 0

(***************************************************************************)
(* C10: with auto_resize=True subsample does not fail because of bounds:   *)
(* an int count k >= 0 with order 'random', 'start' or 'end' returns       *)
(* exactly min(k, N) rows, and a slice key, its start or stop given or     *)
(* not, returns the rows of the slice whose start and stop above N are     *)
(* replaced by N, the step kept.                                           *)
(***************************************************************************)
C10_AutoResizeNeverFails ==
    LET cut(o) == IF ~IsNone(o) /\ o[1] > SubN THEN Some(SubN) ELSE o
    IN  /\ (/\ Subsampled /\ last.auto_resize
            /\ last.key.type = "int" /\ last.key.n >= 0 /\ last.order \in ValidOrders)
           => /\ last.status = "ok"
              /\ Len(Returned.rows) = Min(last.key.n, SubN)
        /\ (Subsampled /\ last.auto_resize /\ last.key.type = "slice")
           => /\ last.status = "ok"
              /\ Returned.rows =
                     TakeRows(last.before,
                              ILocSlice(cut(last.key.start), cut(last.key.stop),
                                        last.key.step, SubN)).rows

\* the part of C10 that holds on every Python: counts and slices with both bounds
C10_AutoResizeGivenBounds ==
    LET cut(o) == IF ~IsNone(o) /\ o[1] > SubN THEN Some(SubN) ELSE o
    IN  /\ (/\ Subsampled /\ last.auto_resize
            /\ last.key.type = "int" /\ last.key.n >= 0 /\ last.order \in ValidOrders)
           => /\ last.status = "ok"
              /\ Len(Returned.rows) = Min(last.key.n, SubN)
        /\ (/\ Subsampled /\ last.auto_resize /\ last.key.type = "slice"
            /\ (py = 2 \/ (~IsNone(last.key.start) /\ ~IsNone(last.key.stop))))
           => /\ last.status = "ok"
              /\ Returned.rows =
                     TakeRows(last.before,
                              ILocSlice(cut(last.key.start), cut(last.key.stop),
                                        last.key.step, SubN)).rows

(***************************************************************************)
(* The last transform call.                                                *)
(***************************************************************************)
Transformed == last.op = "transform"

\* a Transformation is built from a name, auto_range set and no d given
AutoRanged == Transformed /\ ~last.transform.built /\ last.auto_range /\ IsNone(last.dkw)

\* the range the metadata declares for channel c: entry i + 1 of $PnR, counted
\* from 1, for the channel at position i of the channel names, counted from 0
DeclaredRange(c) ==
    pool[last.src].ranges[CHOOSE i \in DOMAIN channel_names : channel_names[i] = c]

SelectedChannels == Range(last.channels)

\* d as the claim has it for the shared range r
ExpectedD(r) == IF last.transform.name \in RangeSensitive THEN Log10(r) ELSE NoD

FirstSelected ==
    channel_names[CHOOSE i \in DOMAIN channel_names :
                      /\ channel_names[i] \in SelectedChannels
                      /\ \A j \in 1..(i - 1) : channel_names[j] \notin SelectedChannels]

CollectionTransformed == last.op = "collection.transform"

\* one Transformation for all the members, built from a name, auto_range set
\* and no d given
SharedAutoRanged ==
    /\ CollectionTransformed /\ last.share_transform
    /\ ~last.transform.built /\ last.auto_range /\ IsNone(last.dkw)

\* the range member k of the Collection declared for channel c
MemberRange(k, c) ==
    last.before.c.members[k].ranges[CHOOSE i \in DOMAIN channel_names :
                                        channel_names[i] = c]

MembersBefore == 1..Len(last.before.c.members)

(***************************************************************************)
(* C2, as claimed: in Collection.transform with share_transform=True, a    *)
(* transform given by name, auto_range=True and no d, if two members of    *)
(* the Collection declare different ranges for a selected channel the call *)
(* fails with the validation error and returns no Collection.              *)
(***************************************************************************)
C2_MemberRangesDifferFail ==
    (/\ SharedAutoRanged
     /\ \E c \in Range(last.channels) : \E j, k \in MembersBefore :
            MemberRange(j, c) # MemberRange(k, c))
    => last.status = "Exception" /\ last.res = 0

(***************************************************************************)
(* C1, as claimed: after any sequence of transform, gate and subsample     *)
(* calls on a Measurement and on the Measurements the calls return, the    *)
(* table of every Measurement is as it was when the Measurement was made,  *)
(* in its rows, its columns and its values, and the Measurement a call     *)
(* returns has a table owned apart from the table of the Measurement the   *)
(* call was made on: the two share no buffer.                              *)
(***************************************************************************)
C1_CopyOnWrite ==
    /\ \A i \in 1..Len(pool) : TableOf(i) = born[i]
    /\ (last.op \in {"transform", "gate", "subsample"} /\ last.status = "ok")
       => pool[last.res].buf # pool[last.src].buf

(***************************************************************************)
(* C1, the part that holds: no call changes the table of a Measurement     *)
(* the caller holds.                                                       *)
(***************************************************************************)
C1_TablesUnchanged == \A i \in 1..Len(pool) : TableOf(i) = born[i]

(***************************************************************************)
(* The last call on a Collection.                                          *)
(***************************************************************************)
CollectionCalled ==
    last.op \in {"collection.transform", "collection.gate", "collection.subsample"}

(***************************************************************************)
(* C11: when Collection.transform, Collection.gate or Collection.subsample *)
(* fails on a member, the call fails as a whole and returns no Collection, *)
(* none that holds the members done so far either, and the Collection it   *)
(* was called on has the keys, the member Measurements and the member      *)
(* tables it had before the call.                                          *)
(***************************************************************************)
C11_FanOutAllOrNothing ==
    (CollectionCalled /\ last.status # "ok")
    => /\ last.res = 0
       /\ Len(coll) = 1
       /\ coll[last.src] = last.before.c
       /\ MemberTables(heap, coll[last.src]) = last.before.tables

\* a transform that fails on the second member after the first was done
C11_WitnessTransform ==
    /\ last.op = "collection.transform" /\ last.status # "ok" /\ last.at = 2
    /\ last.return_all

(***************************************************************************)
(* The last transform call on a Collection that shared one Transformation  *)
(* and asked for the spline.                                               *)
(***************************************************************************)
SharedWithSpline ==
    /\ CollectionTransformed /\ last.share_transform /\ last.use_spln
    /\ last.status = "ok"

\* the values the selected channels held, over all the members, before the call
ValuesBefore ==
    UNION {ValuesOf(last.before.tables[k], last.channels) : k \in MembersBefore}

GlobalBounds == <<MinOf(ValuesBefore), MaxOf(ValuesBefore)>>

\* the spline bounds every value of the selected channels of the Collection
\* returned was transformed through
BoundsApplied ==
    {v.tr[Len(v.tr)].spln :
        v \in UNION {ValuesOf(Data(heap, coll[last.res].members[k]), last.channels) :
                        k \in 1..Len(coll[last.res].members)}}

(***************************************************************************)
(* C12, as claimed: in a Collection.transform call with                    *)
(* share_transform=True and the spline asked for, the one Transformation   *)
(* applied to every member has the spline bounds (xmin, xmax) that are the *)
(* least and the greatest value of the selected channels over all the      *)
(* members, set before it is applied to the first member, whether the      *)
(* transform was given by name or as a Transformation already built.       *)
(***************************************************************************)
C12_SplineBoundsGlobal ==
    SharedWithSpline
    => /\ last.transformer.spln = GlobalBounds
       /\ BoundsApplied = {GlobalBounds}

(***************************************************************************)
(* C12, the part that holds: with the transform given by name, the bounds  *)
(* are those of all the members, for every member.                         *)
(***************************************************************************)
C12_ByNameBoundsGlobal ==
    (SharedWithSpline /\ ~last.transform.built)
    => /\ last.transformer.spln = GlobalBounds
       /\ BoundsApplied = {GlobalBounds}

(***************************************************************************)
(* The table a transform call returned, against the table it was called    *)
(* on.                                                                     *)
(***************************************************************************)
TransformedOk == Transformed /\ last.status = "ok"

\* the value of column c in row i of the table returned, as the call must
\* leave it: transformed when c was selected, else as it was
ExpectedValue(i, c) ==
    IF c \in SelectedChannels
    THEN ApplyTo(last.transformer, last.use_spln, last.before.rows[i].val[c])
    ELSE last.before.rows[i].val[c]

\* the rows returned are the rows of the input, every column the table
\* returned has holding the value expected
RowsAsExpected ==
    /\ Len(Returned.rows) = Len(last.before.rows)
    /\ \A i \in 1..Len(Returned.rows) :
          /\ Returned.rows[i].lab = last.before.rows[i].lab
          /\ DOMAIN Returned.rows[i].val = Range(Returned.cols)
          /\ \A c \in Range(Returned.cols) : Returned.rows[i].val[c] = ExpectedValue(i, c)

\* the selected columns in the order the input table has them
SelectedInTableOrder == SelectSeq(last.before.cols, LAMBDA c : c \in SelectedChannels)

(***************************************************************************)
(* C13, as claimed: Measurement.transform with return_all=True returns a   *)
(* table with the columns of the input in the same positions, every column *)
(* not selected unchanged in value and every selected column transformed;  *)
(* with return_all=False the table returned holds the selected columns and *)
(* no other, in the order the input table has them, whatever the order the *)
(* caller lists the channels in.                                           *)
(***************************************************************************)
C13_ColumnsInTableOrder ==
    TransformedOk
    => /\ RowsAsExpected
       /\ last.return_all => Returned.cols = last.before.cols
       /\ ~last.return_all => Returned.cols = SelectedInTableOrder

(***************************************************************************)
(* C13, amended: with return_all=True the table returned has the columns   *)
(* of the input in the same positions, every column not selected unchanged *)
(* in value and every selected column transformed; with return_all=False   *)
(* it holds the selected columns and no other, in the order the caller     *)
(* lists the channels (the order of the input table when channels is not   *)
(* given), each transformed.  The channels listed are distinct columns of  *)
(* the table.                                                              *)
(***************************************************************************)
C13_ColumnsAsListed ==
    TransformedOk
    => /\ RowsAsExpected
       /\ last.return_all => Returned.cols = last.before.cols
       /\ ~last.return_all => Returned.cols = last.channels

\* two channels listed against the order of the table, the others dropped
C13_Witness ==
    /\ TransformedOk /\ ~last.return_all
    /\ last.channels = <<"C", "A">>
    /\ Returned.cols = <<"C", "A">>
    /\ Returned.rows[1].val["C"].tr # <<>>

====
